---------------------------- MODULE Spec2Model ----------------------------
(***************************************************************************)
(* A model of the dice game "Midnight" (package midnight): the scoring     *)
(* rule (utils.py), the simple and compound strategies (strategy.py), the  *)
(* player's turn (player.py) and the game's round loop (game.py).          *)
(*                                                                         *)
(* Three specifications share the variables:                               *)
(*   SpecStrategy  one call of SimpleStrategy.play on arbitrary inputs     *)
(*   SpecPlayer    one stand-alone Player, turn by turn, roll by roll      *)
(*   Spec          a Game: add_player, play, play_round                    *)
(***************************************************************************)
EXTENDS Integers, Sequences, FiniteSets, TLC

(***************************************************************************)
(* Program constants                                                       *)
(***************************************************************************)
N_DICE == 6
QUALIFIERS == {1, 4}
\* player.py imports MUST_HAVE_VALUES from utils, which names the same set
\* QUALIFIERS; the value is the one given in midnight.py
MUST_HAVE_VALUES == {1, 4}
INF_STAKE == 100000000
ANTE == 1
\* np.random.randint(1, 7, n): die values 1..6
MinFace == 1
MaxFace == 6
Faces == MinFace..MaxFace

(***************************************************************************)
(* Bounds of the model                                                     *)
(***************************************************************************)
\* SpecStrategy: kept dice plus rolled dice of one call (the first roll of
\* a turn, all N_DICE dice on empty kept dice, is always included)
MaxDice == 5
\* the seeded generator's stream of dice repeats with this period
StreamPeriod == 2
\* rounds a game is configured for, and rounds the model lets it play
MaxRounds == 2
\* roster size
MaxPlayers == 2
\* turns of the stand-alone player
MaxTurns == 1
\* SpecScore: dice in a list that is scored
MaxScoreDice == 6
\* SpecScore: how far beyond the valid scores the arguments of Score reach
MaxScoreSlack == 3

(***************************************************************************)
(* Lists                                                                   *)
(***************************************************************************)
Range(s) == {s[i] : i \in DOMAIN s}

Contains(s, v) == \E i \in DOMAIN s : s[i] = v

RECURSIVE SeqSum(_)
SeqSum(s) == IF s = <<>> THEN 0 ELSE Head(s) + SeqSum(Tail(s))

\* max(list) of a non-empty list
SeqMax(s) == CHOOSE m \in Range(s) : \A v \in Range(s) : v <= m

\* number of occurrences of v in s
Count(s, v) == Cardinality({i \in DOMAIN s : s[i] = v})

\* list.remove(v): drops the first occurrence of v (every caller passes a
\* value that is present)
ListRemove(s, v) ==
    IF ~Contains(s, v) THEN s
    ELSE LET k == CHOOSE i \in DOMAIN s : s[i] = v /\ \A j \in 1..(i-1) : s[j] # v
         IN  [i \in 1..(Len(s) - 1) |-> IF i < k THEN s[i] ELSE s[i + 1]]

\* n copies of v: [v] * n
Repeat(v, n) == [i \in 1..n |-> v]

\* list(a_set) of small integers, in CPython's iteration order (ascending
\* for the values 1..6)
RECURSIVE ListOfSet(_)
ListOfSet(S) ==
    IF S = {} THEN <<>>
    ELSE LET m == CHOOSE x \in S : \A y \in S : x <= y
         IN  <<m>> \o ListOfSet(S \ {m})

(***************************************************************************)
(* utils.py                                                                *)
(***************************************************************************)
\* the value that stands for "InvalidScoreException was raised"
InvalidScoreException == -1

\* a faulty variant: the upper limit itself is rejected
is_valid_score_open(score) == 0 <= score /\ score < 6 * (N_DICE - Cardinality(QUALIFIERS))

is_valid_score(score) == 0 <= score /\ score <= 6 * (N_DICE - Cardinality(QUALIFIERS))

Score(score) == IF is_valid_score(score) THEN score ELSE InvalidScoreException

\* a faulty variant: the required values are subtracted without looking
\* whether the dice hold them
ScoreLoop_unchecked(dice, must, s) == Score(s - SeqSum(must))

\* a faulty variant: every copy of a required value is subtracted
ScoreLoop_copies(dice, must, s) ==
    IF \E k \in 1..Len(must) : ~Contains(dice, must[k]) THEN Score(0)
    ELSE Score(SeqSum(SelectSeq(dice, LAMBDA d : ~Contains(must, d))))

\* the loop of score_dice / Player.score over the required values
RECURSIVE ScoreLoop(_, _, _)
ScoreLoop(dice, must, s) ==
    IF must = <<>> THEN Score(s)
    ELSE IF ~Contains(dice, Head(must)) THEN Score(0)
    ELSE ScoreLoop(dice, Tail(must), s - Head(must))

\* a faulty variant: the required values are not taken off the sum
score_dice_gross(dice) ==
    IF \E k \in 1..Len(ListOfSet(QUALIFIERS)) : ~Contains(dice, ListOfSet(QUALIFIERS)[k])
    THEN Score(0) ELSE Score(SeqSum(dice))

score_dice(dice) == ScoreLoop(dice, ListOfSet(QUALIFIERS), SeqSum(dice))

dice_qualify(dice) == QUALIFIERS \subseteq Range(dice)

(***************************************************************************)
(* strategy.py: the simple strategies                                      *)
(***************************************************************************)
\* a faulty variant: the pass stops at the first qualifier it takes
QualifierPass_first(kept_dice, rolled_dice, i, new_dice_to_keep) ==
    LET needed == {j \in 1..Len(rolled_dice) :
                      rolled_dice[j] \in QUALIFIERS /\ ~Contains(kept_dice, rolled_dice[j])}
    IN  IF needed = {} \/ dice_qualify(kept_dice) THEN <<>>
        ELSE <<rolled_dice[CHOOSE j \in needed : \A h \in needed : j <= h]>>

\* the first loop of ConservativeStrategy._play (and the later-roll branch
\* of MiddleStrategy._play): walk the rolled dice from position i on
RECURSIVE QualifierPass(_, _, _, _)
QualifierPass(kept_dice, rolled_dice, i, new_dice_to_keep) ==
    IF i > Len(rolled_dice) THEN new_dice_to_keep
    ELSE IF dice_qualify(kept_dice \o new_dice_to_keep) THEN new_dice_to_keep
    ELSE IF rolled_dice[i] \in QUALIFIERS /\ ~Contains(kept_dice, rolled_dice[i])
         THEN QualifierPass(kept_dice, rolled_dice, i + 1,
                            Append(new_dice_to_keep, rolled_dice[i]))
         ELSE QualifierPass(kept_dice, rolled_dice, i + 1, new_dice_to_keep)

\* a faulty variant: the picked dice are left in rolled_dice
RemoveEach_skipped(rolled_dice, dice) == rolled_dice

\* for die in new_dice_to_keep: rolled_dice.remove(die)
RECURSIVE RemoveEach(_, _)
RemoveEach(rolled_dice, dice) ==
    IF dice = <<>> THEN rolled_dice
    ELSE RemoveEach(ListRemove(rolled_dice, Head(dice)), Tail(dice))

\* the while loop of keep_when_qualifies; rolled_dice is changed in place
RECURSIVE keep_when_qualifies_loop(_, _)
keep_when_qualifies_loop(rolled_dice, dice_to_keep) ==
    IF Contains(rolled_dice, 6)
    THEN keep_when_qualifies_loop(ListRemove(rolled_dice, 6), Append(dice_to_keep, 6))
    ELSE IF Len(rolled_dice) <= 2 /\ Contains(rolled_dice, 5)
    THEN keep_when_qualifies_loop(ListRemove(rolled_dice, 5), Append(dice_to_keep, 5))
    ELSE IF Len(rolled_dice) = 1 /\ Contains(rolled_dice, 4)
    THEN keep_when_qualifies_loop(ListRemove(rolled_dice, 4), Append(dice_to_keep, 4))
    ELSE [dice_to_keep |-> dice_to_keep, rolled_dice |-> rolled_dice]

\* a faulty variant: only the sixes are kept, the rules for 5 and 4 are lost
keep_when_qualifies_sixes(rolled_dice) ==
    [dice_to_keep |-> Repeat(6, Count(rolled_dice, 6)),
     rolled_dice |-> SelectSeq(rolled_dice, LAMBDA d : d # 6)]

\* ConservativeStrategy.keep_when_qualifies: the dice it returns and the
\* list it was given, as it leaves it
keep_when_qualifies(rolled_dice) == keep_when_qualifies_loop(rolled_dice, <<>>)

\* the tail shared by both _play methods (strategy.py 110-116, 196-203):
\* the result and the state of the method's own rolled_dice list
PlayTail(kept_dice, rolled_dice, picked) ==
    LET rest == RemoveEach(rolled_dice, picked)
        kw   == IF dice_qualify(kept_dice \o picked)
                THEN keep_when_qualifies(rest)
                ELSE [dice_to_keep |-> <<>>, rolled_dice |-> rest]
        new  == picked \o kw.dice_to_keep
    IN  [new_dice_to_keep |-> IF Len(new) = 0 THEN <<SeqMax(kw.rolled_dice)>> ELSE new,
         rolled_dice |-> kw.rolled_dice,
         kept_dice |-> kept_dice]

ConservativeStrategy_play(kept_dice, rolled_dice) ==
    PlayTail(kept_dice, rolled_dice, QualifierPass(kept_dice, rolled_dice, 1, <<>>))

\* a faulty variant: a six is kept whether one was rolled or not
OneSixIfRolled_always(number_of_sixes) == Repeat(6, 1)

\* [6] * min(1, number_of_sixes)
OneSixIfRolled(number_of_sixes) ==
    Repeat(6, IF number_of_sixes < 1 THEN number_of_sixes ELSE 1)

\* a faulty variant: the last qualifier die of the roll is taken
FirstQualifier_last(rolled_dice) ==
    LET k == CHOOSE i \in DOMAIN rolled_dice :
                 /\ rolled_dice[i] \in QUALIFIERS
                 /\ \A j \in (i+1)..Len(rolled_dice) : rolled_dice[j] \notin QUALIFIERS
    IN  <<rolled_dice[k]>>

\* the first qualifier die in roll order (for ... break)
FirstQualifier(rolled_dice) ==
    LET k == CHOOSE i \in DOMAIN rolled_dice :
                 /\ rolled_dice[i] \in QUALIFIERS
                 /\ \A j \in 1..(i-1) : rolled_dice[j] \notin QUALIFIERS
    IN  <<rolled_dice[k]>>

\* the first-roll branch of MiddleStrategy._play
MiddleFirstRoll(rolled_dice) ==
    LET number_of_sixes   == Count(rolled_dice, 6)
        qualifiers_rolled == QUALIFIERS \cap Range(rolled_dice)
    IN  IF qualifiers_rolled = QUALIFIERS
        THEN IF number_of_sixes > 0
             THEN ListOfSet(qualifiers_rolled) \o Repeat(6, number_of_sixes)
             ELSE FirstQualifier(rolled_dice)
        ELSE IF Cardinality(qualifiers_rolled) = 1
        THEN ListOfSet(qualifiers_rolled) \o OneSixIfRolled(number_of_sixes)
        ELSE <<>>

\* a faulty variant: the first-roll branch is taken on every roll
MiddleStrategy_play_first(kept_dice, rolled_dice) ==
    PlayTail(kept_dice, rolled_dice, MiddleFirstRoll(rolled_dice))

MiddleStrategy_play(kept_dice, rolled_dice) ==
    LET first_roll == Len(kept_dice) = 0
    IN  PlayTail(kept_dice, rolled_dice,
                 IF first_roll THEN MiddleFirstRoll(rolled_dice)
                 ELSE QualifierPass(kept_dice, rolled_dice, 1, <<>>))

SimpleStrategies == {"ConservativeStrategy", "MiddleStrategy"}

\* cls._play
SimpleStrategy_underscore_play(cls, kept_dice, rolled_dice) ==
    IF cls = "ConservativeStrategy"
    THEN ConservativeStrategy_play(kept_dice, rolled_dice)
    ELSE MiddleStrategy_play(kept_dice, rolled_dice)

\* a faulty variant: _play is handed the caller's lists, not copies
SimpleStrategy_play_shared(cls, kept_dice, rolled_dice) ==
    LET r == SimpleStrategy_underscore_play(cls, kept_dice, rolled_dice)
    IN  [new_dice_to_keep |-> r.new_dice_to_keep,
         kept_dice |-> r.kept_dice,
         rolled_dice |-> r.rolled_dice,
         assert_ok |-> Len(r.new_dice_to_keep) > 0]

\* SimpleStrategy.play: _play works on copies, list(kept_dice) and
\* list(rolled_dice); the caller's two lists are what they are afterwards.
\* assert_ok is the assertion len(new_dice_to_keep) > 0.
SimpleStrategy_play(cls, kept_dice, rolled_dice) ==
    LET r == SimpleStrategy_underscore_play(cls, kept_dice, rolled_dice)
    IN  [new_dice_to_keep |-> r.new_dice_to_keep,
         kept_dice |-> kept_dice,
         rolled_dice |-> rolled_dice,
         assert_ok |-> Len(r.new_dice_to_keep) > 0]

(***************************************************************************)
(* strategy.py: the compound strategies, and the two mock strategies of    *)
(* tests/test_player.py                                                    *)
(***************************************************************************)
CompoundStrategies == {"AlwaysConservativeStrategy", "AlwaysMiddleStrategy"}

MockStrategies == {"MockStrategy_1_4", "MockStrategy_1"}

\* strategy.play(kept_dice, rolled_dice, top_score, players_left, current_pot)
CompoundStrategy_play(strategy, kept_dice, rolled_dice, top_score, players_left, current_pot) ==
    CASE strategy = "AlwaysConservativeStrategy" ->
             SimpleStrategy_play("ConservativeStrategy", kept_dice, rolled_dice)
      [] strategy = "AlwaysMiddleStrategy" ->
             SimpleStrategy_play("MiddleStrategy", kept_dice, rolled_dice)
      [] strategy = "MockStrategy_1_4" ->
             [new_dice_to_keep |-> <<1, 4>>, kept_dice |-> kept_dice,
              rolled_dice |-> rolled_dice, assert_ok |-> TRUE]
      [] strategy = "MockStrategy_1" ->
             [new_dice_to_keep |-> <<1>>, kept_dice |-> kept_dice,
              rolled_dice |-> rolled_dice, assert_ok |-> TRUE]

(***************************************************************************)
(* The process-wide random generator behind roll_dice.  Seeded, it yields  *)
(* a fixed stream of dice (here: a pattern of dice, repeated);             *)
(* unseeded (seed <<>>), every roll is possible.                           *)
(***************************************************************************)
\* the die values the seeded streams of the model are made of
SeedFaces == {1, 4, 6}

\* the dice one turn sees when it keeps one die per roll: 6+5+4+3+2+1
DiceOfLongTurn == (N_DICE * (N_DICE + 1)) \div 2

\* two longer streams: a turn of sixes only and a turn that rolls 1 and 4 at
\* once, in either order, so that one player of a round qualifies and the
\* next does not
LongSeeds ==
    {Repeat(6, DiceOfLongTurn) \o <<1, 4, 6, 6, 6, 6>>,
     <<1, 4, 6, 6, 6, 6>> \o Repeat(6, DiceOfLongTurn)}

Seeds == [1..StreamPeriod -> SeedFaces] \cup LongSeeds

Unseeded == [seed |-> <<>>, pos |-> 0]

Seeded(seed) == [seed |-> seed, pos |-> 0]

\* roll_dice(n): the lists of n dice the generator may return
roll_dice(rng, n) ==
    IF rng.seed = <<>>
    THEN [1..n -> Faces]
    ELSE {[i \in 1..n |-> rng.seed[((rng.pos + i - 1) % Len(rng.seed)) + 1]]}

\* the generator after n dice were drawn
Drawn(rng, n) ==
    IF rng.seed = <<>> THEN rng ELSE [rng EXCEPT !.pos = (@ + n) % Len(rng.seed)]

(***************************************************************************)
(* player.py                                                               *)
(***************************************************************************)
\* Player.__init__ ; wager has no value before the first play (0 here)
Player_init(strategy, initial_stake, name) ==
    [name |-> name, strategy |-> strategy, kept_dice |-> <<>>,
     initial_stake |-> initial_stake, stake |-> initial_stake, wager |-> 0]

Player_score(p) ==
    ScoreLoop(p.kept_dice, ListOfSet(MUST_HAVE_VALUES), SeqSum(p.kept_dice))

\* a faulty variant: one of the required values is enough
Player_qualifies_any(p) == MUST_HAVE_VALUES \cap Range(p.kept_dice) # {}

Player_qualifies(p) == MUST_HAVE_VALUES \subseteq Range(p.kept_dice)

Player_has_finished(p) == Len(p.kept_dice) = N_DICE

relative_stake(p) == p.stake - p.initial_stake

\* a faulty variant: the new dice are not added to the kept dice
keep_dice_dropped(p, new_dice_to_keep) == p

keep_dice(p, new_dice_to_keep) == [p EXCEPT !.kept_dice = @ \o new_dice_to_keep]

\* a faulty variant: the kept dice are not cleared
Player_reset_kept(p) == p

\* Player.reset, without its assertion
Player_reset(p) == [p EXCEPT !.kept_dice = <<>>]

\* the assertion of Player.reset: assert self.score == 0
reset_assert_ok(p) == Player_score(p) = 0

\* Player.play up to the loop: reset and the first ante
PlayEnter(p) == [Player_reset(p) EXCEPT !.wager = ANTE]

\* a faulty variant: the second ante is never added
FinalWager_flat(p) == p.wager

\* the wager once the loop has ended (player.py 73-74)
FinalWager(p) == IF Player_qualifies(p) THEN p.wager + ANTE ELSE p.wager

\* Player.play after the loop: the wager is fixed and taken from the stake
PlaySettle(p) ==
    LET w == FinalWager(p) IN [p EXCEPT !.wager = w, !.stake = @ - w]

\* one pass of the loop of Player.play on the dice rolled_dice: the player
\* after keep_dice, the caller's lists after the strategy call, its answer
PlayRoll(p, rolled_dice, top_score, players_left, current_pot) ==
    LET r == CompoundStrategy_play(p.strategy, p.kept_dice, rolled_dice,
                                   top_score, players_left, current_pot)
    IN  [player |-> keep_dice(p, r.new_dice_to_keep),
         kept_dice |-> r.kept_dice,
         rolled_dice |-> r.rolled_dice,
         new_dice_to_keep |-> r.new_dice_to_keep,
         assert_ok |-> r.assert_ok]

(***************************************************************************)
(* State                                                                   *)
(***************************************************************************)
VARIABLES
    \* the random generator (np.random)
    rng,
    \* a stand-alone Player and where its play() stands
    player, ppc,
    \* the last call of a strategy: the caller's two lists as the call left
    \* them, and the list it returned
    strategy_call, strategy_ret,
    \* strategy calls made by the current play(), and calls of play() so far
    invocations, turns,
    \* the Game object
    players, round_first_player, rounds_played, game_stats, n_rounds,
    current_pot, last_round_stats, round_winner,
    \* where the game stands: pc, the frame of the running play_round, and
    \* the exception the last call of play or play_round ended with
    pc, frame, raised,
    \* a call of Score, score_dice or Player.score: what is called on what,
    \* and how the call ended
    score_call, score_ret

player_vars == <<player, ppc, strategy_call, strategy_ret, invocations, turns>>

game_vars == <<players, round_first_player, rounds_played, game_stats, n_rounds, current_pot, last_round_stats, round_winner, pc, frame, raised>>

score_vars == <<score_call, score_ret>>

vars == <<rng, player_vars, game_vars, score_vars>>

\* last_round_stats before the first round: the attribute is not set
NoRoundStats == [round |-> -1, winner |-> "", pot |-> 0, scores |-> <<>>]

\* the frame of play_round / roll: who called, the turn order (roster
\* positions), the loop index i of roll, and what the round started from and
\* the arguments of each player.play call so far
NoFrame == [caller |-> "", order |-> <<>>, i |-> 0, entry_pot |-> 0, entry_stakes |-> <<>>, calls |-> <<>>]

\* _game_stats: a list per column
NoGameStats == [ROUND |-> <<>>, POT |-> <<>>, WINNER |-> <<>>, SCORES |-> <<>>]

NoCall == [cls |-> "", kept_dice |-> <<>>, rolled_dice |-> <<>>]

\* Game.__init__
Game_init(rounds) ==
    /\ players = <<>>
    /\ round_first_player = 0
    /\ rounds_played = 0
    /\ game_stats = NoGameStats
    /\ n_rounds = rounds
    /\ current_pot = 0
    /\ last_round_stats = NoRoundStats
    /\ round_winner = ""
    /\ pc = "idle"
    /\ frame = NoFrame
    /\ raised = "none"

\* no call of a scoring function
NoScoreCall == [op |-> "", dice |-> <<>>, score |-> 0]

NoScoreRet == [state |-> "none", value |-> 0]

NoScore == score_call = NoScoreCall /\ score_ret = NoScoreRet

\* no stand-alone player
NoPlayer ==
    /\ player = Player_init("AlwaysConservativeStrategy", INF_STAKE, "Player1")
    /\ ppc = "none"
    /\ strategy_call = NoCall
    /\ strategy_ret = <<>>
    /\ invocations = 0
    /\ turns = 0

(***************************************************************************)
(* SpecStrategy: one call of ConservativeStrategy.play or                  *)
(* MiddleStrategy.play on any kept dice and any non-empty roll             *)
(***************************************************************************)
InitStrategy ==
    /\ rng = Unseeded
    /\ Game_init(1)
    /\ NoScore
    /\ player = Player_init("AlwaysConservativeStrategy", INF_STAKE, "Player1")
    /\ ppc = "call"
    /\ \/ \E nk \in 0..(MaxDice - 1) : \E nr \in 1..(MaxDice - nk) :
          \E k \in [1..nk -> Faces] : \E r \in [1..nr -> Faces] : \E c \in SimpleStrategies :
              strategy_call = [cls |-> c, kept_dice |-> k, rolled_dice |-> r]
       \/ \E r \in [1..N_DICE -> Faces] : \E c \in SimpleStrategies :
              strategy_call = [cls |-> c, kept_dice |-> <<>>, rolled_dice |-> r]
    /\ strategy_ret = <<>>
    /\ invocations = 0
    /\ turns = 0

\* cls.play(kept_dice, rolled_dice)
StrategyPlay ==
    /\ ppc = "call"
    /\ LET r == SimpleStrategy_play(strategy_call.cls, strategy_call.kept_dice,
                                    strategy_call.rolled_dice)
       IN  /\ strategy_call' = [strategy_call EXCEPT !.kept_dice = r.kept_dice,
                                                     !.rolled_dice = r.rolled_dice]
           /\ strategy_ret' = r.new_dice_to_keep
           /\ ppc' = IF r.assert_ok THEN "returned" ELSE "AssertionError"
    /\ UNCHANGED <<rng, player, invocations, turns, game_vars, score_vars>>

NextStrategy == StrategyPlay

SpecStrategy == InitStrategy /\ [][NextStrategy]_vars

(***************************************************************************)
(* SpecPlayer: a stand-alone Player (as in tests/test_player.py), the      *)
(* generator unseeded                                                      *)
(***************************************************************************)
\* the stake the tests give the player
TestStake == 2

InitPlayer ==
    /\ rng = Unseeded
    /\ Game_init(1)
    /\ NoScore
    /\ \E st \in CompoundStrategies \cup MockStrategies :
           player = [Player_init(st, INF_STAKE, "Player1") EXCEPT !.stake = TestStake]
    /\ ppc = "idle"
    /\ strategy_call = NoCall
    /\ strategy_ret = <<>>
    /\ invocations = 0
    /\ turns = 0

\* Player.play is called: reset (with its assertion) and the first ante
PlayerPlayEnter ==
    /\ ppc \in {"idle", "settled"}
    /\ turns < MaxTurns
    /\ turns' = turns + 1
    /\ invocations' = 0
    /\ IF reset_assert_ok(Player_reset(player))
       THEN player' = PlayEnter(player) /\ ppc' = "rolling"
       ELSE player' = Player_reset(player) /\ ppc' = "AssertionError"
    /\ UNCHANGED <<rng, strategy_call, strategy_ret, game_vars, score_vars>>

\* one pass of the loop: roll, ask the strategy, keep
PlayerPlayRoll ==
    /\ ppc = "rolling"
    /\ ~Player_has_finished(player)
    /\ \E dice \in roll_dice(rng, N_DICE - Len(player.kept_dice)) :
         LET o == PlayRoll(player, dice, 0, 0, 0) IN
           /\ rng' = Drawn(rng, N_DICE - Len(player.kept_dice))
           /\ invocations' = invocations + 1
           /\ IF o.assert_ok
              THEN player' = o.player /\ ppc' = "rolling"
              ELSE player' = player /\ ppc' = "AssertionError"
    /\ UNCHANGED <<strategy_call, strategy_ret, turns, game_vars, score_vars>>

\* the loop has ended: the wager is settled and play returns
PlayerPlaySettle ==
    /\ ppc = "rolling"
    /\ Player_has_finished(player)
    /\ player' = PlaySettle(player)
    /\ ppc' = "settled"
    /\ UNCHANGED <<rng, strategy_call, strategy_ret, invocations, turns, game_vars, score_vars>>

NextPlayer == PlayerPlayEnter \/ PlayerPlayRoll \/ PlayerPlaySettle

SpecPlayer == InitPlayer /\ [][NextPlayer]_vars

(***************************************************************************)
(* game.py                                                                 *)
(***************************************************************************)
\* Player.play as a whole, on a seeded generator: the loop from player p on
RECURSIVE PlayLoop(_, _, _, _, _)
PlayLoop(p, g, top_score, players_left, pot) ==
    IF Player_has_finished(p) THEN [player |-> p, rng |-> g]
    ELSE LET n    == N_DICE - Len(p.kept_dice)
             dice == CHOOSE d \in roll_dice(g, n) : TRUE
         IN  PlayLoop(PlayRoll(p, dice, top_score, players_left, pot).player,
                      Drawn(g, n), top_score, players_left, pot)

\* player.play(top_score, players_left, current_pot)
Player_play(p, g, top_score, players_left, pot) ==
    LET done == PlayLoop(PlayEnter(p), g, top_score, players_left, pot)
    IN  [player |-> PlaySettle(done.player), rng |-> done.rng]

n_players == Len(players)

\* a faulty variant: the scores are listed in the turn order of the round
scores_in_turn_order(ps) == [j \in DOMAIN ps |-> Player_score(ps[frame.order[j]])]

\* Game.scores of a roster
scores(ps) == [k \in DOMAIN ps |-> Player_score(ps[k])]

\* Game.top_score of a non-empty roster
top_score(ps) == Score(SeqMax(scores(ps)))

stakes(ps) == [k \in DOMAIN ps |-> ps[k].stake]

\* a faulty variant: the turn order is the roster order, not rotated
sort_players_roster(ps, first_player) == [j \in 1..Len(ps) |-> j]

\* Game.sort_players: the turn order, as roster positions 1..n
sort_players(ps, first_player) ==
    [j \in 1..Len(ps) |-> ((first_player + j - 1) % Len(ps)) + 1]

\* a faulty variant: the loop of play gives up one round early
Game_has_finished_early == rounds_played + 1 >= n_rounds

Game_has_finished == rounds_played = n_rounds

PlayerName(k) == "Player" \o ToString(k)

\* Player(strategy=...) is constructed and added: game.add_player(player)
AddPlayer ==
    /\ pc = "idle"
    /\ n_players < MaxPlayers
    /\ \E st \in CompoundStrategies :
           players' = Append(players, Player_init(st, INF_STAKE, PlayerName(n_players + 1)))
    /\ UNCHANGED <<rng, player_vars, score_vars, round_first_player, rounds_played, game_stats, n_rounds, current_pot, last_round_stats, round_winner, pc, frame, raised>>

\* the frame of a play_round that starts now
NewFrame(caller) ==
    [caller |-> caller, order |-> sort_players(players, round_first_player), i |-> 1,
     entry_pot |-> current_pot, entry_stakes |-> stakes(players), calls |-> <<>>]

\* a faulty variant: play does not look at the roster before it loops
Play_unchecked ==
    /\ pc = "idle"
    /\ raised' = "none" /\ pc' = "loop"
    /\ UNCHANGED <<rng, player_vars, score_vars, players, round_first_player, rounds_played, game_stats, n_rounds, current_pot, last_round_stats, round_winner, frame>>

\* game.play() is called
Play ==
    /\ pc = "idle"
    /\ IF n_players = 0
       THEN raised' = "NoPlayerException" /\ pc' = "idle"
       ELSE raised' = "none" /\ pc' = "loop"
    /\ UNCHANGED <<rng, player_vars, score_vars, players, round_first_player, rounds_played, game_stats, n_rounds, current_pot, last_round_stats, round_winner, frame>>

\* play: while not self.has_finished()
PlayLoopTest ==
    /\ pc = "loop"
    /\ IF Game_has_finished
       THEN pc' = "idle" /\ frame' = frame
       ELSE /\ rounds_played < MaxRounds
            /\ pc' = "roll"
            /\ frame' = NewFrame("play")
    /\ UNCHANGED <<rng, player_vars, score_vars, players, round_first_player, rounds_played, game_stats, n_rounds, current_pot, last_round_stats, round_winner, raised>>

\* game.play_round() is called directly
PlayRound ==
    /\ pc = "idle"
    /\ rounds_played < MaxRounds
    /\ IF n_players = 0
       THEN raised' = "ValueError" /\ pc' = "idle" /\ frame' = frame
       ELSE raised' = "none" /\ pc' = "roll" /\ frame' = NewFrame("play_round")
    /\ UNCHANGED <<rng, player_vars, score_vars, players, round_first_player, rounds_played, game_stats, n_rounds, current_pot, last_round_stats, round_winner>>

\* a faulty variant: the pot grows by one ante whatever the wager
PotAfter_ante(pot, p) == pot + ANTE

\* a faulty variant: the wager is not added to the pot
PotAfter_unchanged(pot, p) == pot

\* the pot after a player's wager is added (game.py 94)
PotAfter(pot, p) == pot + p.wager

\* roll: one pass of the loop over the players in turn order
Turn ==
    /\ pc = "roll"
    /\ frame.i <= n_players
    /\ \E k \in {frame.order[frame.i]} :
       \E args \in {[player |-> k, top_score |-> top_score(players),
                     players_left |-> n_players - frame.i, current_pot |-> current_pot]} :
       \E out \in {Player_play(players[k], rng, args.top_score, args.players_left,
                               args.current_pot)} :
           /\ players' = [players EXCEPT ![k] = out.player]
           /\ rng' = out.rng
           /\ current_pot' = PotAfter(current_pot, out.player)
           /\ frame' = [frame EXCEPT !.i = @ + 1, !.calls = Append(@, args)]
    /\ UNCHANGED <<player_vars, score_vars, round_first_player, rounds_played, game_stats, n_rounds, last_round_stats, round_winner, pc, raised>>

\* a faulty variant: only the first top scorer in turn order is found
top_scored_players_first(ps, order) ==
    LET top == top_score(ps)
    IN  SubSeq(SelectSeq(order, LAMBDA k : Player_score(ps[k]) = top), 1, 1)

\* a faulty variant: only the last top scorer in turn order is found
top_scored_players_last(ps, order) ==
    LET top == top_score(ps)
        all == SelectSeq(order, LAMBDA k : Player_score(ps[k]) = top)
    IN  SubSeq(all, Len(all), Len(all))

\* roll 96-99: the players with the top score, in turn order
top_scored_players(ps, order) ==
    LET top == top_score(ps)
    IN  SelectSeq(order, LAMBDA k : Player_score(ps[k]) = top)

\* a faulty variant: the winner is paid the wagers of the round only
PayWinner_round(ps, w, pot) == [ps EXCEPT ![w].stake = @ + pot - frame.entry_pot]

\* the single winner is paid (game.py 59)
PayWinner(ps, w, pot) == [ps EXCEPT ![w].stake = @ + pot]

\* RoundStats(...) of the round that ends (game.py 61-66, 69-74)
RoundStats(ps, top) ==
    [round  |-> rounds_played,
     winner |-> IF Len(top) = 1 THEN ps[top[1]].name ELSE "Tie",
     pot    |-> current_pot,
     scores |-> scores(ps)]

\* a faulty variant: the first of the top scorers starts the next round
NextFirstPlayer_first(top) == top[1] - 1

\* a faulty variant: the position in the roster is taken one-based
NextFirstPlayer_onebased(top) == top[Len(top)]

\* self.players.index(top_scored_players[-1])
NextFirstPlayer(top) == top[Len(top)] - 1

\* save_round_stats
save_round_stats(stats) ==
    [ROUND  |-> Append(game_stats.ROUND, stats.round),
     POT    |-> Append(game_stats.POT, stats.pot),
     WINNER |-> Append(game_stats.WINNER, stats.winner),
     SCORES |-> Append(game_stats.SCORES, stats.scores)]

\* the rest of play_round once every player has played (and, inside play,
\* the save_round_stats that follows it)
RoundEnd ==
    /\ pc = "roll"
    /\ frame.i > n_players
    /\ LET top   == top_scored_players(players, frame.order)
           stats == RoundStats(players, top)
       IN  /\ IF Len(top) = 1
              THEN /\ players' = PayWinner(players, top[1], current_pot)
                   /\ round_winner' = players[top[1]].name
                   /\ current_pot' = 0
              ELSE UNCHANGED <<players, round_winner, current_pot>>
           /\ last_round_stats' = stats
           /\ round_first_player' = NextFirstPlayer(top)
           /\ rounds_played' = rounds_played + 1
           /\ IF frame.caller = "play"
              THEN game_stats' = save_round_stats(stats) /\ pc' = "loop"
              ELSE game_stats' = game_stats /\ pc' = "idle"
    /\ frame' = NoFrame
    /\ UNCHANGED <<rng, player_vars, score_vars, n_rounds, raised>>

Init ==
    /\ \E seed \in Seeds : rng = Seeded(seed)
    /\ \E rounds \in 0..MaxRounds : Game_init(rounds)
    /\ NoPlayer
    /\ NoScore

Next == AddPlayer \/ Play \/ PlayLoopTest \/ PlayRound \/ Turn \/ RoundEnd

Spec == Init /\ [][Next]_vars

(***************************************************************************)
(* SpecScore: one call of Score(n), score_dice(dice), dice_qualify(dice),   *)
(* Player.score or Player.qualifies                                        *)
(***************************************************************************)
\* the highest valid score, 6 * (N_DICE - len(QUALIFIERS))
TopValidScore == 6 * (N_DICE - Cardinality(QUALIFIERS))

ScoreArgs == (0 - MaxScoreSlack)..(TopValidScore + MaxScoreSlack)

\* how a call that computed the value v ends
ScoreOutcome(v) ==
    IF v = InvalidScoreException
    THEN [state |-> "InvalidScoreException", value |-> 0]
    ELSE [state |-> "returned", value |-> v]

\* the functions of utils.py and the members of Player that are called
FreeScoreOps == {"score_dice", "dice_qualify"}

PlayerScoreOps == {"Player.score", "Player.qualifies"}

\* the faces of the lists that are longer than a hand
LongFaces == {1, 4, 6}

\* the dice lists a call is made on: every list of up to MaxScoreDice dice,
\* and the lists of one die more than a hand over LongFaces
ScoreLists ==
    UNION {[1..len -> Faces] : len \in 0..MaxScoreDice} \cup [1..(N_DICE + 1) -> LongFaces]

InitScore ==
    /\ rng = Unseeded
    /\ Game_init(1)
    /\ ppc = "none"
    /\ strategy_call = NoCall
    /\ strategy_ret = <<>>
    /\ invocations = 0
    /\ turns = 0
    /\ score_ret = NoScoreRet
    /\ \/ \E n \in ScoreArgs :
             /\ score_call = [op |-> "Score", dice |-> <<>>, score |-> n]
             /\ player = Player_init("AlwaysConservativeStrategy", INF_STAKE, "Player1")
       \/ \E d \in ScoreLists :
             \/ /\ score_call \in {[op |-> o, dice |-> d, score |-> 0] : o \in FreeScoreOps}
                /\ player = Player_init("AlwaysConservativeStrategy", INF_STAKE, "Player1")
             \/ /\ score_call \in {[op |-> o, dice |-> d, score |-> 0] : o \in PlayerScoreOps}
                /\ player = [Player_init("AlwaysConservativeStrategy", INF_STAKE, "Player1")
                                EXCEPT !.kept_dice = d]

\* Score(n)
ScoreNew ==
    /\ score_call.op = "Score"
    /\ score_ret.state = "none"
    /\ score_ret' = ScoreOutcome(Score(score_call.score))
    /\ UNCHANGED <<rng, player_vars, game_vars, score_call>>

\* score_dice(dice)
ScoreDice ==
    /\ score_call.op = "score_dice"
    /\ score_ret.state = "none"
    /\ score_ret' = ScoreOutcome(score_dice(score_call.dice))
    /\ UNCHANGED <<rng, player_vars, game_vars, score_call>>

\* player.score, with player.kept_dice set to the dice
PlayerScore ==
    /\ score_call.op = "Player.score"
    /\ score_ret.state = "none"
    /\ score_ret' = ScoreOutcome(Player_score(player))
    /\ UNCHANGED <<rng, player_vars, game_vars, score_call>>

\* dice_qualify(dice)
DiceQualify ==
    /\ score_call.op = "dice_qualify"
    /\ score_ret.state = "none"
    /\ score_ret' = [state |-> "returned", value |-> dice_qualify(score_call.dice)]
    /\ UNCHANGED <<rng, player_vars, game_vars, score_call>>

\* player.qualifies(), with player.kept_dice set to the dice
PlayerQualifies ==
    /\ score_call.op = "Player.qualifies"
    /\ score_ret.state = "none"
    /\ score_ret' = [state |-> "returned", value |-> Player_qualifies(player)]
    /\ UNCHANGED <<rng, player_vars, game_vars, score_call>>

NextScore == ScoreNew \/ ScoreDice \/ PlayerScore \/ DiceQualify \/ PlayerQualifies

SpecScore == InitScore /\ [][NextScore]_vars

(***************************************************************************)
(* Properties of the round (game.py)                                       *)
(***************************************************************************)
\* the step that ends a round: the rest of play_round after roll
RoundEndStep == pc = "roll" /\ frame.i > n_players /\ rounds_played' = rounds_played + 1

\* the roster positions holding the maximum score of the round just rolled
MaxScorers ==
    {k \in 1..n_players : \A j \in 1..n_players : Player_score(players[j]) <= Player_score(players[k])}

\* the wagers of the round just rolled, summed over the roster from k on
RECURSIVE WagersFrom(_)
WagersFrom(k) == IF k > n_players THEN 0 ELSE players[k].wager + WagersFrom(k + 1)

\* the pot carried into the round plus every wager of the round
EntirePot == frame.entry_pot + WagersFrom(1)

\* C1: when exactly one player holds the maximum score of a round, the end
\* of play_round adds the entire pot (the pot carried in plus every wager of
\* the round) to that player's stake, leaves current_pot 0 and records that
\* player as winner with the amount paid.
C1_SingleWinnerTakesPot ==
    [][(RoundEndStep /\ Cardinality(MaxScorers) = 1) =>
          \A w \in MaxScorers :
             /\ players'[w].stake = players[w].stake + EntirePot
             /\ players'[w].stake = frame.entry_stakes[w] - players[w].wager + EntirePot
             /\ current_pot' = 0
             /\ last_round_stats'.winner = players[w].name
             /\ last_round_stats'.pot = EntirePot]_vars

\* a round won by a single player who is paid a pot larger than the wagers
\* of one round: a carried pot was paid out
C1_Witness ==
    /\ pc = "idle"
    /\ rounds_played = 2
    /\ last_round_stats.winner \notin {"Tie", ""}
    /\ last_round_stats.pot > 2 * ANTE * n_players
    /\ current_pot = 0
    /\ \E k \in 1..n_players :
          /\ players[k].name = last_round_stats.winner
          /\ players[k].stake > players[k].initial_stake

\* C2: when two or more players share the maximum score, the end of
\* play_round credits no stake (every stake is the one the round started
\* with less the player's own wager), current_pot keeps the whole
\* accumulated amount, the record says "Tie"; and the first player of the
\* next round is called with that pot.
C2_TieCarriesPot ==
    /\ [][(RoundEndStep /\ Cardinality(MaxScorers) >= 2) =>
             /\ \A k \in 1..n_players :
                   /\ players'[k].stake = players[k].stake
                   /\ players'[k].stake = frame.entry_stakes[k] - players[k].wager
             /\ current_pot' = EntirePot
             /\ last_round_stats'.winner = "Tie"
             /\ last_round_stats'.pot = EntirePot]_vars
    /\ []((pc = "roll" /\ Len(frame.calls) >= 1 /\ last_round_stats.winner = "Tie")
             => /\ frame.entry_pot = last_round_stats.pot
                /\ frame.calls[1].current_pot = last_round_stats.pot)

\* the second round is under way after a tied first round with a pot
C2_Witness ==
    /\ pc = "roll"
    /\ rounds_played = 1
    /\ Len(frame.calls) >= 1
    /\ last_round_stats.winner = "Tie"
    /\ last_round_stats.pot = 2 * ANTE * n_players
    /\ frame.calls[1].current_pot = 2 * ANTE * n_players
    /\ \A k \in 1..n_players : players[k].stake < players[k].initial_stake

\* the last player, in the turn order of the frame, among the top scorers
LastMaxScorer ==
    LET j == CHOOSE i \in 1..n_players :
                 /\ frame.order[i] \in MaxScorers
                 /\ \A h \in (i + 1)..n_players : frame.order[h] \notin MaxScorers
    IN  frame.order[j]

\* C3: after every play_round, round_first_player is the roster index of the
\* last player in turn order among the top scorers; and the turn order of
\* a round starts with the player at round_first_player.
C3_LastTopScorerStartsNext ==
    /\ [][RoundEndStep => round_first_player' = LastMaxScorer - 1]_vars
    /\ []((pc = "roll" /\ frame.order # <<>>) => frame.order[1] = round_first_player + 1)

\* a second round started by roster player 2, who was the last of the tied
\* players of the first round in a turn order that started with player 1
C3_Witness ==
    /\ pc = "roll"
    /\ rounds_played = 1
    /\ n_players = 2
    /\ last_round_stats.winner = "Tie"
    /\ round_first_player = 1
    /\ frame.order = <<2, 1>>
    /\ Len(frame.calls) = 1
    /\ frame.calls[1].player = 2

RECURSIVE SumStakes(_, _)
SumStakes(ps, k) == IF k > Len(ps) THEN 0 ELSE ps[k].stake + SumStakes(ps, k + 1)

RECURSIVE SumInitialStakes(_, _)
SumInitialStakes(ps, k) ==
    IF k > Len(ps) THEN 0 ELSE ps[k].initial_stake + SumInitialStakes(ps, k + 1)

\* C4: chips are conserved: the stakes of all players plus current_pot equal
\* the sum of the initial stakes, in every state.
C4_ChipsConserved ==
    SumStakes(players, 1) + current_pot = SumInitialStakes(players, 1)

\* two rounds played through play(): a tie, then a clean win
C4_Witness ==
    /\ pc = "idle"
    /\ n_players = 2
    /\ Len(game_stats.WINNER) = 2
    /\ game_stats.WINNER[1] = "Tie"
    /\ game_stats.WINNER[2] # "Tie"
    /\ current_pot = 0
    /\ \E k \in 1..2 : players[k].stake > players[k].initial_stake

(***************************************************************************)
(* Properties of a player's turn (player.py)                               *)
(***************************************************************************)
\* the step on which Player.play settles the wager and returns
SettleStep == ppc = "rolling" /\ ppc' = "settled"

\* the player holds one of the two strategies that ship with the program
ProductionStrategy == player.strategy \in CompoundStrategies

C6_OneAnteIfQualifies ==
    [][SettleStep =>
          player'.stake = player.stake - (IF QUALIFIERS \subseteq Range(player'.kept_dice)
                                          THEN ANTE ELSE 2 * ANTE)]_vars

\* the case of test_play_stake_does_qualifies: the strategy that returns
\* [1, 4], a stake of 2 at the call, play has returned
C6_Witness ==
    /\ ppc = "settled"
    /\ turns = 1
    /\ player.strategy = "MockStrategy_1_4"
    /\ QUALIFIERS \subseteq Range(player.kept_dice)
    /\ player.stake = TestStake - 2 * ANTE

\* C7: with ConservativeStrategy or MiddleStrategy the kept dice are never
\* more than six while Player.play runs, and exactly six when it returns.
C7_KeptDiceAtMostSix ==
    ProductionStrategy =>
       /\ Len(player.kept_dice) <= N_DICE
       /\ ppc = "settled" => Len(player.kept_dice) = N_DICE
       /\ ppc # "AssertionError"

\* a turn of the middle strategy that took the last two dice on one roll
C7_Witness ==
    /\ ppc = "settled"
    /\ player.strategy = "AlwaysMiddleStrategy"
    /\ Len(player.kept_dice) = N_DICE
    /\ invocations = 3
    /\ player.kept_dice[5] = 6 /\ player.kept_dice[6] = 5

\* C8: with ConservativeStrategy or MiddleStrategy Player.play ends after
\* at most 6 strategy invocations: every invocation keeps at least one die,
\* no invocation fails, and after the sixth the loop condition is false.
C8_AtMostSixInvocations ==
    ProductionStrategy =>
       /\ invocations <= N_DICE
       /\ ppc \in {"rolling", "settled"} => invocations <= Len(player.kept_dice)
       /\ invocations = N_DICE => Player_has_finished(player)
       /\ ppc # "AssertionError"

\* a turn that needed all six invocations
C8_Witness ==
    /\ ppc = "settled"
    /\ player.strategy = "AlwaysConservativeStrategy"
    /\ invocations = N_DICE
    /\ Len(player.kept_dice) = N_DICE

(***************************************************************************)
(* Properties of one strategy call (strategy.py)                           *)
(***************************************************************************)
\* C9: for every kept list and every non-empty roll, the list returned by
\* ConservativeStrategy.play and MiddleStrategy.play is non-empty and a
\* sub-multiset of the rolled dice (no assertion of play fails).
C9_ResultNonEmptySubMultiset ==
    /\ ppc # "AssertionError"
    /\ ppc = "returned" =>
          /\ Len(strategy_ret) >= 1
          /\ \A v \in Range(strategy_ret) \cup Faces :
                Count(strategy_ret, v) <= Count(strategy_call.rolled_dice, v)

\* the middle strategy's first roll: both qualifiers once and every six,
\* out of six dice that hold each of them twice
C9_Witness ==
    /\ ppc = "returned"
    /\ strategy_call.cls = "MiddleStrategy"
    /\ strategy_call.kept_dice = <<>>
    /\ strategy_call.rolled_dice = <<6, 1, 6, 1, 4, 4>>
    /\ strategy_ret = <<1, 4, 6, 6>>

\* C10: ConservativeStrategy does not keep repeated qualifiers: when the
\* kept dice lack a qualifier value q and the roll holds q more than once,
\* only one die of value q is taken by the qualifier pass (a 4 that
\* keep_when_qualifies adds once the hand qualifies is not counted).
C10_NoRepeatedQualifiers ==
    (ppc = "returned" /\ strategy_call.cls = "ConservativeStrategy") =>
        \A q \in QUALIFIERS :
           (/\ ~Contains(strategy_call.kept_dice, q)
            /\ Count(strategy_call.rolled_dice, q) > 1
            /\ (q = 1 \/ ~dice_qualify(strategy_call.kept_dice \o strategy_ret)))
           => Count(strategy_ret, q) = 1

\* the call of test_dont_keep_repeated_qualifiers has returned
C10_Witness ==
    /\ ppc = "returned"
    /\ strategy_call.cls = "ConservativeStrategy"
    /\ strategy_call.kept_dice = <<>>
    /\ strategy_call.rolled_dice = <<1, 1, 6, 3, 3, 3>>
    /\ strategy_ret = <<1, 1>>

\* the qualifier picks of the call, and the rolled dice they leave
QualifierPicks == QualifierPass(strategy_call.kept_dice, strategy_call.rolled_dice, 1, <<>>)

RemainingDice == RemoveEach(strategy_call.rolled_dice, QualifierPicks)

\* the greedy rule in closed form: every 6; every 5 if at most two dice
\* remain once the sixes are gone; one 4 if it is then the only die left
GreedyKeep(rest) ==
    LET n6 == Count(rest, 6)
        n5 == IF Len(rest) - n6 <= 2 THEN Count(rest, 5) ELSE 0
        n4 == IF Len(rest) - n6 - n5 = 1 /\ Contains(rest, 4) THEN 1 ELSE 0
    IN  Repeat(6, n6) \o Repeat(5, n5) \o Repeat(4, n4)

ConservativeQualifiedCall ==
    /\ ppc = "returned"
    /\ strategy_call.cls = "ConservativeStrategy"
    /\ dice_qualify(strategy_call.kept_dice \o QualifierPicks)

\* C11 (as stated): whenever the kept dice plus the qualifier picks qualify,
\* the dice ConservativeStrategy.play returns after the qualifier picks are
\* exactly those of the greedy rule (6s; 5s if at most two dice remain; a 4
\* if exactly one die remains).
C11_GreedyExactly ==
    ConservativeQualifiedCall =>
        strategy_ret = QualifierPicks \o GreedyKeep(RemainingDice)

\* C11 (amended): the same, except that when neither the qualifier pass
\* nor the greedy rule keeps a die, the single highest rolled die is returned.
C11_GreedyOrHighest ==
    ConservativeQualifiedCall =>
        LET chosen == QualifierPicks \o GreedyKeep(RemainingDice)
        IN  strategy_ret = IF chosen = <<>>
                           THEN <<SeqMax(strategy_call.rolled_dice)>>
                           ELSE chosen

\* test1 of tests/test_strategy.py has returned
C11_Witness ==
    /\ ppc = "returned"
    /\ strategy_call.cls = "ConservativeStrategy"
    /\ strategy_call.kept_dice = <<>>
    /\ strategy_call.rolled_dice = <<1, 4, 6, 3, 3, 3>>
    /\ strategy_ret = <<1, 4, 6>>

\* C12: ConservativeStrategy.play never discards a needed qualifier: every
\* qualifier value that the kept dice lack and the roll holds occurs in the
\* returned list.
C12_NeededQualifierKept ==
    (ppc = "returned" /\ strategy_call.cls = "ConservativeStrategy") =>
        \A q \in QUALIFIERS :
           (~Contains(strategy_call.kept_dice, q) /\ Contains(strategy_call.rolled_dice, q))
              => Contains(strategy_ret, q)

\* a first roll holding both qualifiers behind other dice: both are returned
C12_Witness ==
    /\ ppc = "returned"
    /\ strategy_call.cls = "ConservativeStrategy"
    /\ strategy_call.kept_dice = <<>>
    /\ strategy_call.rolled_dice = <<3, 4, 2, 2, 1, 5>>
    /\ Contains(strategy_ret, 1) /\ Contains(strategy_ret, 4)
    /\ Len(strategy_ret) = 2

(***************************************************************************)
(* Properties of scoring (utils.py, Player.score)                          *)
(***************************************************************************)
DiceScored == score_call.op \in {"score_dice", "Player.score"} /\ score_ret.state # "none"

\* C13: for every dice list that lacks a qualifier value (1 or 4),
\* score_dice and Player.score return 0, whatever the other dice are.
C13_ScoreZeroWithoutQualifiers ==
    (DiceScored /\ \E q \in {1, 4} : ~Contains(score_call.dice, q)) =>
        score_ret = [state |-> "returned", value |-> 0]

\* test_score_is_zero: score_dice([1, 5, 6]) has returned 0
C13_Witness ==
    /\ score_call.op = "score_dice"
    /\ score_call.dice = <<1, 5, 6>>
    /\ score_ret = [state |-> "returned", value |-> 0]

\* the sum of the dice from position k on
RECURSIVE DiceSumFrom(_, _)
DiceSumFrom(dice, k) == IF k > Len(dice) THEN 0 ELSE dice[k] + DiceSumFrom(dice, k + 1)

\* C14: for every dice list of at most six dice that holds both qualifier
\* values, the score is the sum of all dice minus 5, so further copies of
\* 1 or 4 count at face value.
C14_ScoreIsSumMinusFive ==
    (/\ DiceScored
     /\ Len(score_call.dice) <= 6
     /\ Contains(score_call.dice, 1) /\ Contains(score_call.dice, 4)) =>
        score_ret = [state |-> "returned", value |-> DiceSumFrom(score_call.dice, 1) - 5]

\* player.score with the kept dice [1, 4, 1, 1, 1, 1] has returned 4
C14_Witness ==
    /\ score_call.op = "Player.score"
    /\ player.kept_dice = <<1, 4, 1, 1, 1, 1>>
    /\ score_call.dice = player.kept_dice
    /\ score_ret = [state |-> "returned", value |-> 4]

\* C15: constructing a Score raises InvalidScoreException for every integer
\* below 0 or above 24, and yields that same integer for every integer
\* from 0 to 24 inclusive.
C15_ScoreRange ==
    (score_call.op = "Score" /\ score_ret.state # "none") =>
        IF score_call.score < 0 \/ score_call.score > 24
        THEN score_ret.state = "InvalidScoreException"
        ELSE score_ret = [state |-> "returned", value |-> score_call.score]

\* Score(24) has returned 24
C15_Witness ==
    /\ score_call.op = "Score"
    /\ score_call.score = 24
    /\ score_ret = [state |-> "returned", value |-> 24]

(***************************************************************************)
(* Properties of Game.play, add_player and the round log (game.py)         *)
(***************************************************************************)
\* C16: Game.play on a game with an empty roster fails with
\* NoPlayerException and leaves the game unchanged: no round is played,
\* rounds_played stays 0, current_pot stays 0, no round record is appended.
C16_PlayWithoutPlayers ==
    /\ [][(Play /\ players = <<>>) =>
             /\ raised' = "NoPlayerException"
             /\ pc' = "idle"
             /\ rounds_played' = 0 /\ current_pot' = 0
             /\ game_stats' = NoGameStats
             /\ UNCHANGED <<players, round_first_player, rounds_played, game_stats, n_rounds, current_pot, last_round_stats, round_winner, frame>>]_vars
    /\ [](players = <<>> => (pc = "idle" /\ rounds_played = 0 /\ current_pot = 0))

\* play has failed on a game without players that was asked for two rounds
C16_Witness ==
    /\ raised = "NoPlayerException"
    /\ players = <<>>
    /\ n_rounds = 2
    /\ pc = "idle"
    /\ rounds_played = 0

\* play is running: in its loop test, or in a round it started
InPlay == pc = "loop" \/ (pc = "roll" /\ frame.caller = "play")

\* play has just been entered on a game in which no round was ever played
FreshPlay == pc = "loop" /\ rounds_played = 0 /\ game_stats = NoGameStats

\* play is running and every round played so far was played by play
\* (true when play is entered on a new game, and kept by every step of play)
PlayFromNew == InPlay /\ Len(game_stats.ROUND) = rounds_played

\* what play still has to do: rounds, then turns of the running round
PlayMeasure ==
    IF ~InPlay THEN 0
    ELSE (n_rounds - rounds_played) * (n_players + 3)
         + (IF pc = "loop" THEN n_players + 2 ELSE n_players + 1 - frame.i)

\* C17: on a newly constructed game with a non-empty roster and
\* n_rounds >= 0, Game.play terminates having played exactly n_rounds
\* rounds: it never plays more than n_rounds rounds, every step brings it
\* nearer to its return and it can always take one, it returns only with
\* rounds_played = n_rounds, and the log then holds the records of rounds
\* 0, 1, ..., n_rounds-1 in order.
C17_PlayPlaysAllRounds ==
    /\ [](FreshPlay => PlayFromNew)
    /\ [][(PlayFromNew /\ InPlay') => PlayFromNew']_vars
    /\ [](PlayFromNew =>
             /\ n_players > 0
             /\ rounds_played <= n_rounds
             /\ game_stats.ROUND = [k \in 1..rounds_played |-> k - 1]
             /\ PlayMeasure > 0
             /\ \/ ENABLED PlayLoopTest
                \/ ENABLED RoundEnd
                \/ (pc = "roll" /\ frame.i <= n_players))
    /\ [][PlayFromNew => PlayMeasure' < PlayMeasure]_vars
    /\ [][(PlayFromNew /\ ~InPlay') =>
             /\ pc' = "idle"
             /\ rounds_played' = n_rounds
             /\ game_stats'.ROUND = [k \in 1..n_rounds |-> k - 1]
             /\ Len(game_stats'.WINNER) = n_rounds]_vars

\* play has returned from a new game of two rounds with both records logged
C17_Witness ==
    /\ pc = "idle"
    /\ n_rounds = 2
    /\ rounds_played = 2
    /\ game_stats.ROUND = <<0, 1>>
    /\ Len(game_stats.WINNER) = 2
    /\ raised = "none"

\* the roster position that follows k in cyclic roster order
CyclicNext(k) == IF k = n_players THEN 1 ELSE k + 1

\* the step in which the player in turn plays
TurnStep == pc = "roll" /\ frame.i <= n_players /\ frame'.i = frame.i + 1

\* C18: the turn order of a round is the roster rotated so that the player
\* at index round_first_player acts first and the others follow in cyclic
\* roster order; in every round each roster player plays exactly once and
\* contributes exactly one wager to the pot.
C18_TurnOrderIsRotation ==
    /\ [](pc = "roll" =>
             /\ Len(frame.order) = n_players
             /\ frame.order[1] = round_first_player + 1
             /\ \A j \in 1..(n_players - 1) : frame.order[j + 1] = CyclicNext(frame.order[j])
             /\ Len(frame.calls) = frame.i - 1
             /\ \A j \in 1..Len(frame.calls) : frame.calls[j].player = frame.order[j]
             /\ \A j \in 1..n_players :
                   players[frame.order[j]].stake =
                      frame.entry_stakes[frame.order[j]]
                        - (IF j < frame.i THEN players[frame.order[j]].wager ELSE 0))
    /\ [][TurnStep =>
             LET k == frame.order[frame.i]
             IN  /\ players'[k].wager \in {ANTE, 2 * ANTE}
                 /\ current_pot' = current_pot + players'[k].wager
                 /\ \A j \in 1..n_players : j # k => players'[j] = players[j]]_vars
    /\ [][RoundEndStep =>
             /\ {frame.calls[j].player : j \in 1..Len(frame.calls)} = 1..n_players
             /\ Len(frame.calls) = n_players]_vars

\* a round opened by roster player 2 in which both players have played
C18_Witness ==
    /\ pc = "roll"
    /\ n_players = 2
    /\ round_first_player = 1
    /\ frame.order = <<2, 1>>
    /\ frame.i = 3
    /\ frame.calls[1].player = 2 /\ frame.calls[2].player = 1
    /\ current_pot >= frame.entry_pot + 2 * ANTE

\* C19: every call of play_round appends the round's record to the round
\* log and increments rounds_played, so that after any sequence of
\* play_round and play calls the log holds rounds_played records.
C19_LogMatchesRounds ==
    /\ [][RoundEndStep => Len(game_stats'.ROUND) = Len(game_stats.ROUND) + 1]_vars
    /\ [](pc = "idle" => Len(game_stats.ROUND) = rounds_played)

\* play_round, called directly, has played a round that is not in the log
C19_Witness ==
    /\ pc = "idle"
    /\ rounds_played = 1
    /\ last_round_stats.round = 0
    /\ game_stats = NoGameStats

\* C20: add_player fails once a round has been played: the roster is fixed
\* once play begins.
C20_RosterFixedOncePlayed ==
    [][rounds_played >= 1 => Len(players') = Len(players)]_vars

\* a second player was added after the first round had been played
C20_Witness ==
    /\ pc = "idle"
    /\ rounds_played = 1
    /\ n_players = 2
    /\ Len(last_round_stats.scores) = 1
    /\ raised = "none"

\* C21: in every reachable state of a game with a non-empty roster,
\* round_first_player is a valid roster index:
\* 0 <= round_first_player < number of players.
C21_FirstPlayerIsRosterIndex ==
    players # <<>> => (0 <= round_first_player /\ round_first_player < Len(players))

\* the last roster player starts the next round of a two-player game
C21_Witness ==
    /\ pc = "idle"
    /\ Len(players) = 2
    /\ rounds_played >= 1
    /\ round_first_player = 1
    /\ last_round_stats.winner = "Player2"

\* the wagers of the players in turn positions 1..j of the running round
RECURSIVE WagersOfTurns(_)
WagersOfTurns(j) ==
    IF j = 0 THEN 0 ELSE players[frame.order[j]].wager + WagersOfTurns(j - 1)

\* C22: within a round, the player in turn position i of n is called with
\* players_left = n - i and with current_pot equal to the pot carried into
\* the round plus the wagers of the players in positions 1..i-1: each wager
\* is added to the pot before the next player acts.
C22_CallSeesPotSoFar ==
    pc = "roll" =>
       \A i \in 1..Len(frame.calls) :
          /\ frame.calls[i].player = frame.order[i]
          /\ frame.calls[i].players_left = Len(players) - i
          /\ frame.calls[i].current_pot = frame.entry_pot + WagersOfTurns(i - 1)

\* the second player of a round that started with a carried pot was called
\* with that pot plus the two antes of the first player
C22_Witness ==
    /\ pc = "roll"
    /\ Len(players) = 2
    /\ Len(frame.calls) = 2
    /\ frame.entry_pot > 0
    /\ frame.calls[1].players_left = 1
    /\ frame.calls[1].current_pot = frame.entry_pot
    /\ frame.calls[2].players_left = 0
    /\ frame.calls[2].current_pot = frame.entry_pot + 2 * ANTE

\* the records of the log from position i on are the same after the step
LogKept ==
    /\ Len(game_stats'.ROUND) >= Len(game_stats.ROUND)
    /\ \A i \in 1..Len(game_stats.ROUND) :
          /\ game_stats'.ROUND[i] = game_stats.ROUND[i]
          /\ game_stats'.POT[i] = game_stats.POT[i]
          /\ game_stats'.WINNER[i] = game_stats.WINNER[i]
          /\ game_stats'.SCORES[i] = game_stats.SCORES[i]

\* C23: the score list of every round record is in roster order (entry k
\* is the score of roster player k for that round), whichever player
\* started the round, and a record in the log is never changed afterwards.
C23_ScoresInRosterOrder ==
    /\ [][RoundEndStep =>
             /\ Len(last_round_stats'.scores) = Len(players)
             /\ \A k \in 1..Len(players) :
                   last_round_stats'.scores[k] = score_dice(players[k].kept_dice)
             /\ frame.caller = "play" =>
                   /\ Len(game_stats'.SCORES) = Len(game_stats.SCORES) + 1
                   /\ game_stats'.SCORES[Len(game_stats'.SCORES)] = last_round_stats'.scores]_vars
    /\ [][LogKept]_vars

\* play has logged two rounds; the first was a tie, so roster player 2
\* started the second, whose record lists two different scores
C23_Witness ==
    /\ pc = "idle"
    /\ Len(players) = 2
    /\ Len(game_stats.SCORES) = 2
    /\ game_stats.WINNER[1] = "Tie"
    /\ game_stats.SCORES[2][1] # game_stats.SCORES[2][2]
    /\ game_stats.SCORES[2] = <<score_dice(players[1].kept_dice), score_dice(players[2].kept_dice)>>

\* the dice a turn decides, in the order decided: the answers of strategy st
\* joined onto hand, each to a fresh roll of the dice not yet kept
RECURSIVE TurnDecisions(_, _, _, _, _, _)
TurnDecisions(st, hand, g, top, left, pot) ==
    IF Len(hand) >= N_DICE THEN hand
    ELSE LET n    == N_DICE - Len(hand)
             dice == CHOOSE d \in roll_dice(g, n) : TRUE
             r    == CompoundStrategy_play(st, hand, dice, top, left, pot)
         IN  TurnDecisions(st, hand \o r.new_dice_to_keep, Drawn(g, n), top, left, pot)

\* C24: every turn starts from an empty hand: Player.play clears the kept
\* dice before its first roll (also the full hand of the round before), the
\* assertion of Player.reset holds for every player of every reachable
\* state, and the hand a turn ends with is exactly the dice decided in that
\* turn, in the order they were decided.
C24_TurnStartsFromEmptyHand ==
    /\ [](\A k \in 1..n_players :
             /\ Player_reset(players[k]).kept_dice = <<>>
             /\ reset_assert_ok(Player_reset(players[k])))
    /\ [][TurnStep =>
             LET k == frame.order[frame.i]
                 c == frame'.calls[frame.i]
             IN  /\ Len(players'[k].kept_dice) = N_DICE
                 /\ players'[k].kept_dice =
                       TurnDecisions(players[k].strategy, <<>>, rng,
                                     c.top_score, c.players_left, c.current_pot)]_vars

\* a player who ended the round before with a scoring hand has played the
\* next round, and ended it with a different hand
C24_Witness ==
    /\ pc = "roll"
    /\ rounds_played = 1
    /\ Len(frame.calls) >= 1
    /\ Len(last_round_stats.scores) = n_players
    /\ \E k \in {frame.order[1]} :
          /\ last_round_stats.scores[k] > 0
          /\ Len(players[k].kept_dice) = N_DICE
          /\ Player_score(players[k]) # last_round_stats.scores[k]

\* the step in which the strategy call is made and returns or raises
StrategyPlayStep == ppc = "call" /\ ppc' # "call"

\* C25: ConservativeStrategy.play and MiddleStrategy.play leave the
\* caller's kept-dice list and rolled-dice list as they were, although
\* _play removes the dice it keeps from the list it works on.
C25_CallerListsUnchanged ==
    [][StrategyPlayStep =>
          /\ strategy_call'.kept_dice = strategy_call.kept_dice
          /\ strategy_call'.rolled_dice = strategy_call.rolled_dice]_vars

\* a call of each class has returned dice that _play removed from its own
\* list, and the caller still holds the whole roll
C25_Witness ==
    /\ ppc = "returned"
    /\ strategy_call.cls = "MiddleStrategy"
    /\ strategy_call.kept_dice = <<1>>
    /\ strategy_call.rolled_dice = <<6, 4, 2, 6>>
    /\ strategy_ret = <<4, 6, 6>>
    /\ SimpleStrategy_underscore_play("ConservativeStrategy", <<1>>, <<6, 4, 2, 6>>).rolled_dice = <<2>>

\* a player that holds the dice of the call as kept dice
Holder == [player EXCEPT !.kept_dice = score_call.dice]

C26_WitnessRaise ==
    /\ score_call.op = "Player.score"
    /\ player.kept_dice = <<1, 4, 6, 6, 6, 6, 6>>
    /\ score_ret.state = "InvalidScoreException"

\* MiddleStrategy.play has returned from a call without kept dice
MiddleFirstRollReturned ==
    /\ ppc = "returned"
    /\ strategy_call.cls = "MiddleStrategy"
    /\ strategy_call.kept_dice = <<>>

\* the position of the first die of the roll that is a 1 or a 4
FirstQualifierAt(roll) ==
    CHOOSE i \in 1..Len(roll) :
        roll[i] \in {1, 4} /\ \A j \in 1..(i - 1) : roll[j] \notin {1, 4}

C27_WitnessSixes ==
    /\ MiddleFirstRollReturned
    /\ strategy_call.rolled_dice = <<1, 4, 6, 6, 3, 3>>
    /\ strategy_ret = <<1, 4, 6, 6>>

C29_OneDieUntilQualified ==
    (/\ ppc = "returned"
     /\ strategy_call.cls = "ConservativeStrategy"
     /\ ~dice_qualify(strategy_call.kept_dice \o strategy_ret)) =>
        Len(strategy_ret) = 1

\* a first roll of five dice with three 4s and no 1: the call has returned
\* all three, and the hand does not qualify
C29_Witness ==
    /\ ppc = "returned"
    /\ strategy_call.cls = "ConservativeStrategy"
    /\ strategy_call.kept_dice = <<>>
    /\ strategy_call.rolled_dice = <<4, 2, 4, 4, 3>>
    /\ strategy_ret = <<4, 4, 4>>
    /\ ~dice_qualify(strategy_ret)

\* the highest score among the players of turn positions 1..j of the round
\* being rolled, 0 if there is none
RECURSIVE TopOfActed(_)
TopOfActed(j) ==
    IF j = 0 THEN 0
    ELSE LET s == Player_score(players[frame.order[j]])
             t == TopOfActed(j - 1)
         IN  IF s > t THEN s ELSE t

\* C30: the top_score passed to a player at the start of their turn is the
\* maximum score among the players who have already acted in the current
\* round (0 for the round's first player); scores of hands kept from the
\* previous round never influence it.
C30_TopScoreOfThisRound ==
    pc = "roll" =>
       \A i \in 1..Len(frame.calls) : frame.calls[i].top_score = TopOfActed(i - 1)

\* the first player of a second round was called with the top score of the
\* first round
C30_Witness ==
    /\ pc = "roll"
    /\ rounds_played = 1
    /\ Len(frame.calls) >= 1
    /\ frame.calls[1].top_score > 0
    /\ frame.calls[1].top_score = SeqMax(last_round_stats.scores)

(***************************************************************************)
(* Termination of play, winners and score ranges                           *)
(***************************************************************************)
\* C31: Game.play terminates whenever the roster is non-empty, from every
\* state reachable by earlier calls of play_round and play and for every
\* configured n_rounds: while play runs, the rounds played have not passed
\* n_rounds, so the exit test rounds_played == n_rounds of its loop is still
\* ahead (each pass adds one round); and a call of play on a finished game
\* plays no further round and changes nothing.
C31_PlayTerminates ==
    /\ [](InPlay => rounds_played <= n_rounds)
    /\ [][(pc = "loop" /\ Game_has_finished) =>
             /\ pc' = "idle"
             /\ UNCHANGED <<rng, players, round_first_player, rounds_played, game_stats,
                            n_rounds, current_pot, last_round_stats, round_winner>>]_vars

\* play was called after two direct calls of play_round on a game of one
\* round: its loop test can never be met again
C31_Witness ==
    /\ pc = "loop"
    /\ n_players > 0
    /\ n_rounds = 1
    /\ rounds_played = 2
    /\ ~Game_has_finished

\* record i of the log names a single winner among two or more players, and
\* that winner's score is above every other score of the record
WinnerAbove(i) ==
    \A k \in 1..Len(game_stats.SCORES[i]) :
       game_stats.WINNER[i] = PlayerName(k) =>
          \A j \in 1..Len(game_stats.SCORES[i]) :
             j # k => game_stats.SCORES[i][k] > game_stats.SCORES[i][j]

\* C32: in every round of a game with at least two players, a player who
\* did not qualify (score 0) never receives the pot: if no player qualifies
\* the round is recorded as a Tie and the pot carries over, and every
\* recorded single winner has a score strictly greater than every other
\* score in that record.
C32_NoPotWithoutQualifying ==
    /\ [][(RoundEndStep /\ n_players >= 2) =>
             /\ \A k \in 1..n_players :
                   (~Player_qualifies(players[k]) \/ Player_score(players[k]) = 0) =>
                       /\ players'[k].stake = players[k].stake
                       /\ last_round_stats'.winner # players[k].name
             /\ (\A k \in 1..n_players : ~Player_qualifies(players[k])) =>
                   /\ last_round_stats'.winner = "Tie"
                   /\ last_round_stats'.pot = current_pot
                   /\ current_pot' = current_pot
                   /\ current_pot' >= n_players * ANTE
             /\ last_round_stats'.winner # "Tie" =>
                   \E w \in 1..n_players :
                      /\ last_round_stats'.winner = players[w].name
                      /\ \A j \in 1..n_players :
                            j # w => last_round_stats'.scores[w] > last_round_stats'.scores[j]]_vars
    /\ [](\A i \in 1..Len(game_stats.SCORES) :
             Len(game_stats.SCORES[i]) >= 2 => WinnerAbove(i))

\* a round of two players is over in which the first did not qualify and
\* the second took the pot of three antes
C32_Witness ==
    /\ pc = "idle"
    /\ n_players = 2
    /\ rounds_played >= 1
    /\ last_round_stats.winner = "Player2"
    /\ last_round_stats.scores[1] = 0
    /\ last_round_stats.scores[2] > 0
    /\ last_round_stats.pot = 3 * ANTE
    /\ players[1].stake = INF_STAKE - ANTE

\* a round of two players is over in which nobody qualified: a Tie, and the
\* pot of two antes is carried over
C32_WitnessTie ==
    /\ pc = "idle"
    /\ n_players = 2
    /\ rounds_played = 1
    /\ last_round_stats.winner = "Tie"
    /\ last_round_stats.scores = <<0, 0>>
    /\ current_pot = 2 * ANTE

\* the score of a list of exactly N_DICE dice has been computed
HandScored == DiceScored /\ Len(score_call.dice) = N_DICE

\* C33: for every list of exactly six die values in 1..6, computing the
\* score never raises InvalidScoreException, and the score is 0 when the
\* list does not qualify and between 4 and 24 when it does; so for a
\* finished hand score > 0 holds exactly when the hand qualifies, and a top
\* score taken from such scores is a valid Score.
C33_HandScoreInRange ==
    HandScored =>
       /\ score_ret.state = "returned"
       /\ IF Contains(score_call.dice, 1) /\ Contains(score_call.dice, 4)
          THEN 4 <= score_ret.value /\ score_ret.value <= 24
          ELSE score_ret.value = 0
       /\ (score_ret.value > 0) = dice_qualify(score_call.dice)
       /\ (score_ret.value > 0) = Player_qualifies(Holder)
       /\ Score(score_ret.value) = score_ret.value

\* test_score_is_largest: score_dice([1, 4, 6, 6, 6, 6]) has returned 24
C33_Witness ==
    /\ score_call.op = "score_dice"
    /\ score_call.dice = <<1, 4, 6, 6, 6, 6>>
    /\ score_ret = [state |-> "returned", value |-> 24]

\* in the game: when every player of a round has played, every hand has six
\* dice and the top score the game computes is a valid Score
C33_TopScoreValid ==
    (pc = "roll" /\ frame.i > n_players) =>
       /\ \A k \in 1..n_players : Len(players[k].kept_dice) = N_DICE
       /\ top_score(players) # InvalidScoreException
       /\ 0 <= top_score(players) /\ top_score(players) <= 24

=============================================================================
